---- MODULE Spec2Model ----
(***************************************************************************)
(* Model of the crawl-orchestration core of potato-WebCrawler:             *)
(*   WebCrawler.crawl / _is_valid_next_page / _handle_pagination / save /  *)
(*   run (src/src/core/crawler.py) and HttpClient.resolve_url / get /      *)
(*   close (src/src/utils/http_client.py).                                 *)
(* One behaviour is one WebCrawler instance executing run() once.  The     *)
(* remote site is the environment: each HTTP attempt nondeterministically  *)
(* succeeds (serving some page, possibly after a redirect) or fails.       *)
(***************************************************************************)
EXTENDS Integers, Sequences, FiniteSets, TLC

\* ---------------------------------------------------------------- bounds
MaxPagesBound == 3
MaxRetriesBound == 3
MaxRules == 2

\* ------------------------------------------------------------- vocabulary
\* Python's None
NoneVal == "<None>"

\* f"{parsed.scheme}://{parsed.netloc}" of an absolute URL
Origins == {"http://h1", "http://h2"}

\* what f"{parsed.scheme}://{parsed.netloc}" yields for a URL without scheme
EmptyOrigin == "://"

AbsURLs == {"http://h1/a", "http://h1/b", "http://h2/a"}

RelURLs == {"/a", "/b"}

PlaceholderHrefs == {"#", "javascript:void(0)", "javascript:;"}

\* HTTP status codes for which raise_for_status() raises HTTPError
ErrorStatuses == {404, 500}

\* exceptions session.get can raise that are not HTTPError
TransportErrors == {"Timeout", "ConnectionError", "RequestException"}

\* urlparse(url) -> f"{scheme}://{netloc}"
OriginOf(url) ==
    CASE url \in {"http://h1/a", "http://h1/b"} -> "http://h1"
      [] url \in {"http://h2/a", "http://h2/b"} -> "http://h2"
      [] OTHER -> EmptyOrigin

\* urljoin(base_url, url) for an origin-only base and a rooted relative path
urljoin(base, url) ==
    CASE base = "http://h1" /\ url = "/a" -> "http://h1/a"
      [] base = "http://h1" /\ url = "/b" -> "http://h1/b"
      [] base = "http://h2" /\ url = "/a" -> "http://h2/a"
      [] base = "http://h2" /\ url = "/b" -> "http://h2/b"
      [] OTHER -> url

\* url.startswith(('http://', 'https://'))
StartsWithHttp(url) == OriginOf(url) \in Origins

\* Python truthiness of an optional string
Truthy(v) == v \notin {NoneVal, ""}

\* HttpClient.resolve_url(url) with base_url defaulting to current_base_url
resolve_url(url, base) ==
    IF StartsWithHttp(url) THEN url
    ELSE IF Truthy(base) THEN urljoin(base, url)
    ELSE url

\* ------------------------------------------------- next-link elements
TheHref == "http://h1/b"

PlainElement(h) ==
    [disabled |-> NoneVal, class |-> <<"next">>, aria |-> NoneVal, href |-> h]

\* the elements a page may carry under the next-page selector
Elements ==
    {PlainElement(h) : h \in AbsURLs \cup RelURLs \cup PlaceholderHrefs \cup {NoneVal, ""}}
    \cup {[PlainElement(TheHref) EXCEPT !.disabled = d] : d \in {"", "disabled"}}
    \cup {[PlainElement(TheHref) EXCEPT !.class = c] :
            c \in {<<>>, <<"next", "disabled">>, <<"inactive">>, <<"unavailable">>}}
    \cup {[PlainElement(TheHref) EXCEPT !.aria = a] : a \in {"true", "false"}}

\* what soup.select(selector) / tree.xpath(selector) returns on a page
Matches ==
    {<<>>} \cup {<<e>> : e \in Elements}
    \cup {<<e, PlainElement("http://h2/a")>> :
            e \in {PlainElement("http://h1/a"),
                   [PlainElement(TheHref) EXCEPT !.class = <<"disabled">>]}}

\* a successful response: final (post-redirect) URL, whether the body parses,
\* and the matches of the next-page selector in the body
Responses ==
    [url : AbsURLs, parse_ok : BOOLEAN, matches : Matches]

\* DataExtractor.extract_all(rules) on the page served under a final URL:
\* the Record names the page it was extracted from
ExtractAll(resp) == [title |-> resp.url]

\* time is counted in tenths of a second
\* HttpClient.__init__(backoff_factor=0.5); WebCrawler never overrides it
BackoffFactor == 5

\* config.get('delay', 1.0)
DefaultDelay == 10

\* time.time() when the run starts: seconds since 1970, far beyond any delay
Epoch == 1000

Configs ==
    [start_url : {"http://h1/a", "/a"},
     has_pagination : BOOLEAN,
     max_pages : 1..MaxPagesBound,
     next_page_type : {"css", "xpath"},
     selector_ok : BOOLEAN,
     max_retries : 1..MaxRetriesBound,
     delay : {DefaultDelay}]

\* the environment of Spec: any response, requests and page processing take
\* no measurable time, random.uniform(0.8, 1.2) draws 1.0
Environments ==
    {[site |-> "any", thinks |-> {0}, durations |-> {0}, jitters |-> {10}]}

\* a site with one chain of pages: every response is served under the URL
\* http://h1/a or http://h1/b and links to http://h1/b or to nothing
ChainResponses ==
    [url : {"http://h1/a", "http://h1/b"}, parse_ok : {TRUE},
     matches : {<<>>, <<PlainElement("http://h1/b")>>}]

\* a site of pages that link to one another in any way, cycles included:
\* every page carries no next link or one enabled link to some URL
LinkResponses ==
    [url : AbsURLs, parse_ok : BOOLEAN,
     matches : {<<>>} \cup {<<PlainElement(h)>> : h \in AbsURLs \cup RelURLs}]

\* the responses the site of an environment may serve
ResponsesOf(e) ==
    CASE e.site = "any" -> Responses
      [] e.site = "links" -> LinkResponses
      [] OTHER -> ChainResponses

\* ------------------------------------------------- extraction vocabulary
\* str.strip() / get_text(strip=True) on the texts that occur in the documents
Strip(text) ==
    CASE text = " Page 1 " -> "Page 1"
      [] text = "next " -> "next"
      [] text = "  " -> ""
      [] OTHER -> text

TextElement(t, h) == [text |-> t, href |-> h]

\* the documents: what each selector matches, in document order; the
\* selector "bad" is one the selector engine rejects
Documents == {"page1", "page2"}

Selectors == {"title", "links", "none", "bad"}

SelectorRaises(selector) == selector = "bad"

\* soup.select(selector) / tree.xpath(selector) for a selector that is accepted
Select(doc, selector) ==
    CASE selector = "title" /\ doc = "page1" -> <<TextElement(" Page 1 ", NoneVal)>>
      [] selector = "title" /\ doc = "page2" -> <<TextElement("  ", NoneVal)>>
      [] selector = "links" /\ doc = "page1" ->
            <<TextElement("next ", "/b"), TextElement("last", NoneVal),
              TextElement("top", "#")>>
      [] selector = "links" /\ doc = "page2" -> <<TextElement("prev", "/a")>>
      [] OTHER -> <<>>

RuleTypes == {"css", "xpath", "regex"}

\* rule.get('attr'): absent or the name of an attribute
RuleAttrs == {NoneVal, "href"}

\* the field of the i-th rule of a rule set: field names are unique
FieldName(i) == CASE i = 1 -> "f1" [] i = 2 -> "f2" [] i = 3 -> "f3" [] OTHER -> "f4"

RuleBodies ==
    [type : RuleTypes, selector : Selectors, attr : RuleAttrs, multiple : BOOLEAN]

\* config['extract_rules']: non-empty lists of rules with distinct fields
RuleSets ==
    UNION {{[i \in 1..n |->
                [field |-> FieldName(i), type |-> b[i].type,
                 selector |-> b[i].selector, attr |-> b[i].attr,
                 multiple |-> b[i].multiple]] : b \in [1..n -> RuleBodies]}
           : n \in 1..MaxRules}

\* ConfigLoader.validate: the keys a configuration must have
RequiredFields == {"name", "start_url", "extract_rules"}

\* the key sets of the configurations a WebCrawler is built from
ConfigKeySets == {RequiredFields, {"name", "start_url"}}

\* ConfigLoader.validate accepts the configuration (it raises ValueError
\* otherwise); the rules themselves are not looked at
validate(keys) == \A field \in RequiredFields : field \in keys

\* the values a Record holds: None, a string, or a list of strings
NullValue == [null |-> TRUE]
ScalarValue(v) == [scalar |-> v]
ListValue(vs) == [list |-> vs]

\* ------------------------------------------------------------------ state
VARIABLES
    ex_rules,          \* extract_all argument: rules
    ex_doc,            \* the document the DataExtractor was built from
    ex_idx,            \* extract_all: position of `for rule in rules`
    ex_data,           \* extract_all local: data
    ex_status,         \* idle / config_error / running / returned / raised
    config,            \* WebCrawler.config (read-only after construction)
    env,               \* what the site and the clock may do in this run
    now,               \* time.time()
    last_request_time, \* HttpClient.last_request_time
    actual_delay,      \* _apply_delay_with_jitter local, latest call
    delay_sleep,       \* time slept by the latest _apply_delay_with_jitter
    call_time,         \* current_time read by the latest _apply_delay_with_jitter
    prev_end,          \* when the request before the latest get() ended
    delay_calls,       \* _apply_delay_with_jitter calls made by the latest get()
    backoff_sleeps,    \* backoff sleep times of the latest get(), in order
    request_start,     \* when the latest session.get was entered
    request_end,       \* when the latest session.get returned or raised
    pc,                \* position of run(): start, get, paginate, save, done
    caller,            \* who called HttpClient.get: "crawl" or "pagination"
    results,           \* WebCrawler.results
    visited_urls,      \* WebCrawler.visited_urls
    current_page,      \* _handle_pagination local
    page_extractor,    \* _handle_pagination local: matches on the current page
    halt_reason,       \* why the pagination loop was left
    current_base_url,  \* HttpClient.current_base_url
    base_at_call,      \* current_base_url when the latest get() was entered
    session_closed,    \* HttpClient.session closed
    url,               \* HttpClient.get local: resolved url
    attempt,           \* HttpClient.get local: loop variable
    last_exception,    \* HttpClient.get local
    get_status,        \* outcome of the latest get(): none/running/returned/raised
    get_error,         \* exception the latest get() raised
    last_status,       \* HTTP status of the latest attempt (0: no response)
    get_attempts,      \* session.get calls made by the latest get()
    backoffs,          \* exponents k of the backoff sleeps of the latest get()
    get_urls,          \* resolved URL of every get() call, in order
    total_attempts,    \* session.get calls made by this run
    request_after_close, \* a session.get was issued after close()
    crawl_outcome,     \* none / returned / raised
    crawl_error,       \* exception crawl() propagated
    sink_calls,        \* data handed to storage.save, in order
    run_outcome,       \* none / returned / raised
    response_url,      \* response.url of the latest successful get()
    save_error,        \* exception raised inside save() under run()
    run_error,         \* exception run() propagated to its caller
    exit_code          \* what main.run_crawler returns (-1: not returned yet)

timeVars == <<now, last_request_time, actual_delay, delay_sleep, call_time,
              prev_end, delay_calls, backoff_sleeps, request_start, request_end>>

extractVars == <<ex_rules, ex_doc, ex_idx, ex_data, ex_status>>

vars == <<extractVars, config, env, timeVars, pc, caller, results, visited_urls, current_page,
          page_extractor, halt_reason, current_base_url, session_closed,
          url, attempt, last_exception, get_status, get_error, last_status,
          get_attempts, backoffs, get_urls, total_attempts,
          request_after_close, crawl_outcome, crawl_error, sink_calls,
          run_outcome, response_url, save_error, run_error, base_at_call,
          exit_code>>

crawlerVars == <<results, visited_urls, current_page, page_extractor, halt_reason>>
getVars == <<url, attempt, last_exception, get_status, get_error, last_status,
             get_attempts, backoffs, total_attempts, request_after_close,
             response_url>>
runVars == <<crawl_outcome, crawl_error, sink_calls, run_outcome, session_closed,
             save_error, run_error, exit_code>>

\* WebCrawler.__init__ and HttpClient.__init__, whatever the configuration
InitCrawler ==
    /\ now = Epoch
    /\ last_request_time = 0
    /\ actual_delay = 0
    /\ delay_sleep = 0
    /\ call_time = 0
    /\ prev_end = 0
    /\ delay_calls = 0
    /\ backoff_sleeps = <<>>
    /\ request_start = 0
    /\ request_end = 0
    /\ pc = "start"
    /\ caller = "crawl"
    /\ results = <<>>
    /\ visited_urls = {}
    /\ current_page = 0
    /\ page_extractor = <<>>
    /\ halt_reason = "none"
    /\ current_base_url = NoneVal
    /\ base_at_call = NoneVal
    /\ session_closed = FALSE
    /\ url = NoneVal
    /\ attempt = 0
    /\ last_exception = NoneVal
    /\ get_status = "none"
    /\ get_error = NoneVal
    /\ last_status = 0
    /\ get_attempts = 0
    /\ backoffs = <<>>
    /\ get_urls = <<>>
    /\ total_attempts = 0
    /\ request_after_close = FALSE
    /\ crawl_outcome = "none"
    /\ crawl_error = NoneVal
    /\ sink_calls = <<>>
    /\ run_outcome = "none"
    /\ response_url = NoneVal
    /\ save_error = NoneVal
    /\ run_error = NoneVal
    /\ exit_code = -1

\* no extract_all call is followed rule by rule
InitNoExtraction ==
    /\ ex_rules = <<>>
    /\ ex_doc = NoneVal
    /\ ex_idx = 0
    /\ ex_data = <<>>
    /\ ex_status = "idle"

Init ==
    /\ config \in Configs
    /\ env \in Environments
    /\ InitCrawler
    /\ InitNoExtraction

\* ------------------------------------------------- HttpClient.get pieces
\* mutant: the retry loop runs one iteration short
RangeHasNextShort(a, max_retries) == a < max_retries - 1

\* `for attempt in range(self.max_retries)`: is there an iteration `a`
RangeHasNext(a, max_retries) == a < max_retries

\* `if attempt < self.max_retries - 1` before the backoff sleep
ShouldBackoff(a, max_retries) == a < max_retries - 1

\* `backoff_time = self.backoff_factor * (2 ** attempt)`
BackoffTime(a) == BackoffFactor * 2^a

\* `actual_delay = self.delay * jitter`, jitter in tenths
ActualDelay(delay, jitter) == (delay * jitter) \div 10

\* _apply_delay_with_jitter: the time slept, given time_since_last_request
DelaySleep(time_since_last_request, delay) ==
    IF time_since_last_request < delay
    THEN delay - time_since_last_request
    ELSE 0

\* mutant: the timestamp is taken before session.get instead of after it
RequestTimestampAtStart(start, end) == start

\* `self.last_request_time = time.time()` after the response arrived
RequestTimestamp(start, end) == end

\* truth value of a requests.Response (`e.response if e.response else ...`):
\* Response.__bool__ is Response.ok, false for every status >= 400
ResponseBool(status) == status < 400

\* what the `except HTTPError` handler does with the response's status:
\* status_code is the int only when the response is truthy, otherwise the
\* string 'Unknown', and `400 <= 'Unknown' < 500` raises TypeError
HTTPErrorHandler(status) ==
    IF ~ResponseBool(status) THEN "raise TypeError"
    ELSE IF 400 <= status /\ status < 500 THEN "raise HTTPError"
    ELSE "retry"

\* ---------------------------------------------------- WebCrawler pieces
\* mutant: off-by-one loop condition `current_page <= max_pages`
PaginationContinuesInclusive(page, max_pages) == page <= max_pages

\* `while current_page < max_pages`
PaginationContinues(page, max_pages) == page < max_pages

\* mutant: only the class `disabled` is recognised
DisabledClassesOnlyDisabled == {"disabled"}

DisabledClasses == {"disabled", "inactive", "unavailable"}

InvalidHrefs == {"#", "javascript:void(0)", "javascript:;"}

\* the css branch of _is_valid_next_page on the first matched element
ElementIsValid(element) ==
    IF Truthy(element.disabled) THEN FALSE
    ELSE IF \E i \in 1..Len(element.class) : element.class[i] \in DisabledClasses
         THEN FALSE
    ELSE IF element.aria = "true" THEN FALSE
    ELSE IF ~Truthy(element.href) \/ element.href \in InvalidHrefs THEN FALSE
    ELSE TRUE

\* WebCrawler._is_valid_next_page; selector_ok = FALSE is a selector the
\* parser rejects, whose exception the method turns into False
IsValidNextPage(matches, selector_type, selector_ok) ==
    IF ~selector_ok THEN FALSE
    ELSE IF selector_type = "css"
         THEN IF matches = <<>> THEN FALSE ELSE ElementIsValid(matches[1])
    ELSE Len(matches) > 0

\* the loop of DataExtractor.extract_by_css over the selected elements:
\* element.get(attr, '') when attr is given, else element.get_text(strip=True)
css_values(elements, attr) ==
    [i \in 1..Len(elements) |->
        IF Truthy(attr)
        THEN IF elements[i].href = NoneVal THEN "" ELSE elements[i].href
        ELSE Strip(elements[i].text)]

\* DataExtractor.extract_by_css(selector, attr='href') on the matches
extract_by_css(matches) == css_values(matches, "href")

\* mutant: `return results[:1]`
xpath_values_first(elements) ==
    [i \in 1..(IF Len(elements) > 0 THEN 1 ELSE 0) |-> Strip(elements[i].text)]

\* DataExtractor.extract_by_xpath on the text nodes the expression selects:
\* every result is stringified and stripped
xpath_values(elements) ==
    [i \in 1..Len(elements) |-> Strip(elements[i].text)]

\* the try block of extract_all for one rule: does it raise
RuleRaises(rule) ==
    IF rule.type = "css" THEN SelectorRaises(rule.selector)
    ELSE IF rule.type = "xpath" THEN SelectorRaises(rule.selector)
    ELSE TRUE

\* mutant: `results[0] if results else ''`
RuleValueEmptyString(doc, rule) ==
    LET found == IF rule.type = "css"
                 THEN css_values(Select(doc, rule.selector), rule.attr)
                 ELSE xpath_values(Select(doc, rule.selector))
    IN  IF rule.multiple THEN ListValue(found)
        ELSE IF found # <<>> THEN ScalarValue(found[1]) ELSE ScalarValue("")

\* the try block of extract_all for one rule that does not raise: data[field]
RuleValue(doc, rule) ==
    LET found == IF rule.type = "css"
                 THEN css_values(Select(doc, rule.selector), rule.attr)
                 ELSE xpath_values(Select(doc, rule.selector))
    IN  IF rule.multiple THEN ListValue(found)
        ELSE IF found # <<>> THEN ScalarValue(found[1]) ELSE NullValue

\* the except block of extract_all: `None if not multiple else []`
RuleFallback(rule) == IF ~rule.multiple THEN NullValue ELSE ListValue(<<>>)

\* mutant: a failing rule ends the loop
AfterRuleErrorBreak == "break"

\* the except block of extract_all lies inside the loop: the loop goes on
AfterRuleError == "continue"

\* mutant: the loop body forgets to count the page
NextPageStuck(page) == page

\* `current_page += 1` at the end of a successful loop iteration
NextPage(page) == page + 1

\* `if not next_urls or not next_urls[0]`
NoNextUrl(next_urls) == next_urls = <<>> \/ ~Truthy(next_urls[1])

\* mutant: the handler ends in `continue`
AfterPageErrorContinue == "continue"

\* the `except Exception` handler of the pagination loop ends in `break`
AfterPageError == "break"

\* mutant: close() at the end of the try block instead of in finally
ClosedAfterCrawlOnSuccess(outcome) == outcome = "returned"

\* the `finally` of crawl() closes the client whatever the outcome
ClosedAfterCrawl(outcome) == TRUE

\* mutant: run() swallows the error of crawl() and saves anyway
RunCallsSaveAlways(outcome) == TRUE

\* run(): save() is reached only when crawl() returned
RunCallsSave(outcome) == outcome = "returned"

\* ------------------------------------------------------ main.run_crawler
EXIT_SUCCESS == 0
EXIT_NETWORK_ERROR == 4
EXIT_RUNTIME_ERROR == 5

\* the classes an exception is an instance of: the exceptions of requests
\* derive from RequestException and IOError, not from the builtin
\* ConnectionError and TimeoutError
ExceptionClasses(err) ==
    CASE err = "Timeout" ->
            {"requests.Timeout", "requests.RequestException", "OSError", "Exception"}
      [] err = "ConnectionError" ->
            {"requests.ConnectionError", "requests.RequestException", "OSError",
             "Exception"}
      [] err = "RequestException" ->
            {"requests.RequestException", "OSError", "Exception"}
      [] err = "HTTPError" ->
            {"requests.HTTPError", "requests.RequestException", "OSError",
             "Exception"}
      [] err = "StorageError" -> {"OSError", "Exception"}
      [] OTHER -> {err, "Exception"}

\* `except ConnectionError` and `except TimeoutError` in run_crawler: the
\* builtin classes
NetworkErrorClasses == {"ConnectionError", "TimeoutError"}

\* the except clauses of run_crawler, in order
ExitCodeOf(err) ==
    IF ExceptionClasses(err) \cap NetworkErrorClasses # {} THEN EXIT_NETWORK_ERROR
    ELSE IF "PermissionError" \in ExceptionClasses(err) THEN EXIT_RUNTIME_ERROR
    ELSE EXIT_RUNTIME_ERROR

\* --------------------------------------------------------------- actions
Continue(p) ==
    /\ pc' = p
    /\ UNCHANGED runVars

\* crawl() leaves through its finally block, then run() goes on or propagates
FinishCrawl(outcome, err) ==
    /\ session_closed' = ClosedAfterCrawl(outcome)
    /\ crawl_outcome' = outcome
    /\ crawl_error' = err
    /\ IF RunCallsSave(outcome)
       THEN /\ pc' = "save" /\ run_outcome' = run_outcome /\ run_error' = run_error
            /\ exit_code' = exit_code
       ELSE /\ pc' = "done" /\ run_outcome' = "raised" /\ run_error' = err
            /\ exit_code' = ExitCodeOf(err)
    /\ UNCHANGED <<sink_calls, save_error>>

\* HttpClient.get up to the first attempt: resolve, set base, reset the loop
GetCall(u, who) ==
    /\ url' = resolve_url(u, current_base_url)
    /\ base_at_call' = current_base_url
    /\ current_base_url' = OriginOf(url')
    /\ attempt' = 0
    /\ last_exception' = NoneVal
    /\ get_status' = "running"
    /\ get_error' = NoneVal
    /\ last_status' = 0
    /\ get_attempts' = 0
    /\ backoffs' = <<>>
    /\ get_urls' = Append(get_urls, url')
    /\ caller' = who
    \* self._apply_delay_with_jitter(), once, before the retry loop
    /\ \E think \in env.thinks, jitter \in env.jitters :
        /\ call_time' = now + think
        /\ actual_delay' = ActualDelay(config.delay, jitter)
        /\ delay_sleep' = DelaySleep(call_time' - last_request_time, actual_delay')
        /\ now' = call_time' + delay_sleep'
    /\ delay_calls' = 1
    /\ backoff_sleeps' = <<>>
    /\ prev_end' = request_end
    /\ UNCHANGED <<last_request_time, request_start, request_end>>
    /\ UNCHANGED <<total_attempts, request_after_close, response_url>>

\* crawl(): self.http_client.get(self.config['start_url'])
CrawlStart ==
    /\ pc = "start"
    /\ GetCall(config.start_url, "crawl")
    /\ Continue("get")
    /\ UNCHANGED <<config, env, crawlerVars, extractVars>>

\* one session.get(url) call that takes dur
IssueRequest(dur) ==
    /\ request_start' = now
    /\ request_end' = now + dur
    /\ get_attempts' = get_attempts + 1
    /\ total_attempts' = total_attempts + 1
    /\ request_after_close' = (request_after_close \/ session_closed)

\* the caller's code after get() returned a response
AfterGetReturns(resp) ==
    /\ visited_urls' = visited_urls \cup {resp.url}
    /\ IF caller = "crawl"
       THEN IF ~resp.parse_ok
            THEN /\ FinishCrawl("raised", "ParseError")
                 /\ UNCHANGED <<results, current_page, page_extractor, halt_reason>>
            ELSE /\ results' = Append(results, ExtractAll(resp))
                 /\ IF config.has_pagination
                    THEN /\ current_page' = 1
                         /\ page_extractor' = resp.matches
                         /\ Continue("paginate")
                         /\ UNCHANGED halt_reason
                    ELSE /\ FinishCrawl("returned", NoneVal)
                         /\ UNCHANGED <<current_page, page_extractor, halt_reason>>
       ELSE IF ~resp.parse_ok
            THEN /\ halt_reason' = "fetch_error"
                 /\ IF AfterPageError = "break"
                    THEN FinishCrawl("returned", NoneVal)
                    ELSE Continue("paginate")
                 /\ UNCHANGED <<results, current_page, page_extractor>>
            ELSE /\ results' = Append(results, ExtractAll(resp))
                 /\ page_extractor' = resp.matches
                 /\ current_page' = NextPage(current_page)
                 /\ Continue("paginate")
                 /\ UNCHANGED halt_reason

\* the caller's code after get() raised err
AfterGetRaises(err) ==
    /\ get_status' = "raised"
    /\ get_error' = err
    /\ IF caller = "crawl"
       THEN /\ FinishCrawl("raised", err)
            /\ UNCHANGED crawlerVars
       ELSE /\ halt_reason' = "fetch_error"
            /\ IF AfterPageError = "break"
               THEN FinishCrawl("returned", NoneVal)
               ELSE Continue("paginate")
            /\ UNCHANGED <<results, visited_urls, current_page, page_extractor>>

\* the tail of a failed loop iteration: backoff, next iteration or final raise
EndOfAttempt(err) ==
    /\ backoffs' = IF ShouldBackoff(attempt, config.max_retries)
                   THEN Append(backoffs, attempt) ELSE backoffs
    /\ backoff_sleeps' = IF ShouldBackoff(attempt, config.max_retries)
                         THEN Append(backoff_sleeps, BackoffTime(attempt))
                         ELSE backoff_sleeps
    /\ now' = IF ShouldBackoff(attempt, config.max_retries)
              THEN request_end' + BackoffTime(attempt)
              ELSE request_end'
    /\ IF RangeHasNext(attempt + 1, config.max_retries)
       THEN /\ attempt' = attempt + 1
            /\ Continue("get")
            /\ UNCHANGED <<get_status, get_error, crawlerVars>>
       ELSE /\ attempt' = attempt
            /\ AfterGetRaises(err)

\* an attempt whose response passes raise_for_status()
GetAttemptSucceeds ==
    /\ pc = "get"
    /\ StartsWithHttp(url)
    /\ \E resp \in ResponsesOf(env), dur \in env.durations :
        /\ IssueRequest(dur)
        /\ now' = request_end'
        /\ last_request_time' = RequestTimestamp(request_start', request_end')
        /\ last_status' = 200
        /\ get_status' = "returned"
        /\ response_url' = resp.url
        /\ AfterGetReturns(resp)
    \* get() returns: its loop locals go out of scope
    /\ attempt' = 0
    /\ last_exception' = NoneVal
    /\ UNCHANGED <<config, env, caller, current_base_url, base_at_call, url, get_error,
                   backoffs, get_urls, extractVars>>
    /\ UNCHANGED <<actual_delay, delay_sleep, call_time, prev_end, delay_calls,
                   backoff_sleeps>>

\* an attempt that raises Timeout, ConnectionError or another
\* RequestException (a URL without scheme always raises MissingSchema)
GetAttemptTransportError ==
    /\ pc = "get"
    /\ \E err \in TransportErrors, dur \in env.durations :
        /\ StartsWithHttp(url) \/ err = "RequestException"
        /\ IssueRequest(dur)
        /\ last_exception' = err
        /\ last_status' = 0
        /\ EndOfAttempt(err)
    /\ UNCHANGED <<config, env, caller, current_base_url, base_at_call, url, get_urls,
                   response_url, extractVars>>
    /\ UNCHANGED <<last_request_time, actual_delay, delay_sleep, call_time,
                   prev_end, delay_calls>>

\* an attempt whose response makes raise_for_status() raise HTTPError
GetAttemptHTTPError ==
    /\ pc = "get"
    /\ StartsWithHttp(url)
    /\ \E status \in ErrorStatuses, dur \in env.durations :
        /\ IssueRequest(dur)
        /\ last_exception' = "HTTPError"
        /\ last_status' = status
        /\ CASE HTTPErrorHandler(status) = "raise TypeError" ->
                    /\ AfterGetRaises("TypeError")
                    /\ now' = request_end'
                    /\ UNCHANGED <<attempt, backoffs, backoff_sleeps>>
             [] HTTPErrorHandler(status) = "raise HTTPError" ->
                    /\ AfterGetRaises("HTTPError")
                    /\ now' = request_end'
                    /\ UNCHANGED <<attempt, backoffs, backoff_sleeps>>
             [] OTHER -> EndOfAttempt("HTTPError")
    /\ UNCHANGED <<config, env, caller, current_base_url, base_at_call, url, get_urls,
                   response_url, extractVars>>
    /\ UNCHANGED <<last_request_time, actual_delay, delay_sleep, call_time,
                   prev_end, delay_calls>>

\* why one iteration of the pagination loop leaves the loop without fetching
HaltReason ==
    IF ~PaginationContinues(current_page, config.max_pages)
    THEN "max_pages_reached"
    ELSE IF ~IsValidNextPage(page_extractor, config.next_page_type, config.selector_ok)
    THEN "invalid_next_page"
    ELSE IF config.next_page_type # "css" THEN "xpath"
    ELSE IF NoNextUrl(extract_by_css(page_extractor)) THEN "no_next_url"
    ELSE IF resolve_url(extract_by_css(page_extractor)[1], current_base_url)
              \in visited_urls
    THEN "duplicate_url"
    ELSE "none"

\* a loop iteration that ends the chain: loop condition false or a `break`
PaginationHalt ==
    /\ pc = "paginate"
    /\ HaltReason \notin {"none", "xpath"}
    /\ halt_reason' = HaltReason
    /\ FinishCrawl("returned", NoneVal)
    /\ UNCHANGED <<config, env, timeVars, caller, results, visited_urls,
                   current_page, page_extractor, current_base_url, base_at_call, getVars,
                   get_urls, extractVars>>

\* xpath branch: extract_by_xpath(next_page_selector, attr='href') is called
\* with a keyword the method does not accept; the TypeError is raised outside
\* the loop's try block and leaves crawl() through its except/finally
PaginationXPathError ==
    /\ pc = "paginate"
    /\ HaltReason = "xpath"
    /\ FinishCrawl("raised", "TypeError")
    /\ UNCHANGED <<config, env, timeVars, caller, crawlerVars, current_base_url, base_at_call,
                   getVars, get_urls, extractVars>>

\* a loop iteration that reaches self.http_client.get(next_url)
PaginationFetch ==
    /\ pc = "paginate"
    /\ HaltReason = "none"
    /\ GetCall(extract_by_css(page_extractor)[1], "pagination")
    /\ Continue("get")
    /\ UNCHANGED <<config, env, crawlerVars, extractVars>>

\* what can happen in save() once there is data: StorageFactory.create
\* rejects the format (ValueError, the sink is never invoked), or the sink is
\* invoked and writes the file or raises
SaveOutcomes == {"saved", "ValueError", "StorageError"}

\* mutant: save() also skips a result of a single Record
NothingToSaveSingle(res) == Len(res) <= 1

\* save(): `if not self.results: return`
NothingToSave(res) == res = <<>>

\* WebCrawler.save under run(): run() returns when save() returns and
\* propagates what save() raises; run_crawler maps the outcome to its code
Save ==
    /\ pc = "save"
    /\ pc' = "done"
    /\ IF NothingToSave(results)
       THEN /\ run_outcome' = "returned"
            /\ exit_code' = EXIT_SUCCESS
            /\ UNCHANGED <<sink_calls, save_error, run_error>>
       ELSE \E out \in SaveOutcomes :
            /\ sink_calls' = IF out = "ValueError" THEN sink_calls
                             ELSE Append(sink_calls, results)
            /\ save_error' = IF out = "saved" THEN NoneVal ELSE out
            /\ run_error' = save_error'
            /\ run_outcome' = IF out = "saved" THEN "returned" ELSE "raised"
            /\ exit_code' = IF out = "saved" THEN EXIT_SUCCESS ELSE ExitCodeOf(out)
    /\ UNCHANGED <<config, env, timeVars, caller, crawlerVars, current_base_url, base_at_call,
                   getVars, get_urls, crawl_outcome, crawl_error, session_closed,
                   extractVars>>

Next ==
    \/ CrawlStart
    \/ GetAttemptSucceeds
    \/ GetAttemptTransportError
    \/ GetAttemptHTTPError
    \/ PaginationHalt
    \/ PaginationXPathError
    \/ PaginationFetch
    \/ Save

Spec == Init /\ [][Next]_vars

\* runs on a site whose pages link to one another: any configuration, any
\* outcome of every attempt
LinkEnvironments ==
    {[site |-> "links", thinks |-> {0}, durations |-> {0}, jitters |-> {10}]}

InitLinks ==
    /\ config \in Configs
    /\ env \in LinkEnvironments
    /\ InitCrawler
    /\ InitNoExtraction

\* the interpreter keeps executing run() and every session.get comes back
\* (with a response or an exception): a step that can be taken is taken
FairSpec == InitLinks /\ [][Next]_vars /\ WF_vars(Next)

\* ------------------------------------------------ extract_all on its own
crawlRunVars == <<config, env, timeVars, pc, caller, crawlerVars,
                  current_base_url, base_at_call, getVars, get_urls, runVars>>

\* one iteration of `for rule in rules` in DataExtractor.extract_all
ExtractRule ==
    /\ ex_status = "running"
    /\ ex_idx <= Len(ex_rules)
    /\ LET rule == ex_rules[ex_idx] IN
        IF RuleRaises(rule)
        THEN /\ ex_data' = (rule.field :> RuleFallback(rule)) @@ ex_data
             /\ ex_idx' = IF AfterRuleError = "continue"
                          THEN ex_idx + 1 ELSE Len(ex_rules) + 1
        ELSE /\ ex_data' = (rule.field :> RuleValue(ex_doc, rule)) @@ ex_data
             /\ ex_idx' = ex_idx + 1
    /\ UNCHANGED <<ex_rules, ex_doc, ex_status, crawlRunVars>>

\* `return data` of DataExtractor.extract_all
ExtractReturn ==
    /\ ex_status = "running"
    /\ ex_idx > Len(ex_rules)
    /\ ex_status' = "returned"
    /\ UNCHANGED <<ex_rules, ex_doc, ex_idx, ex_data, crawlRunVars>>

ExtractNext ==
    \/ ExtractRule
    \/ ExtractReturn

\* WebCrawler.__init__ on any configuration, then a DataExtractor built from
\* any document and extract_all called with config['extract_rules']; the
\* crawler around it stays as constructed
InitExtract ==
    /\ config = [start_url |-> "http://h1/a", has_pagination |-> FALSE,
                 max_pages |-> 1, next_page_type |-> "css",
                 selector_ok |-> TRUE, max_retries |-> 1, delay |-> DefaultDelay]
    /\ env \in Environments
    /\ InitCrawler
    /\ ex_doc \in Documents
    /\ ex_idx = 1
    /\ ex_data = <<>>
    /\ \E keys \in ConfigKeySets :
        IF validate(keys)
        THEN ex_rules \in RuleSets /\ ex_status = "running"
        ELSE ex_rules = <<>> /\ ex_status = "config_error"

ExtractSpec == InitExtract /\ [][ExtractNext]_vars

\* runs in which time passes: a two- or three-page chain, requests that take
\* time, processing time between get() calls, and every jitter bound
TimingConfigs ==
    [start_url : {"http://h1/a"},
     has_pagination : {TRUE},
     max_pages : {2},
     next_page_type : {"css", "xpath"},
     selector_ok : {TRUE},
     max_retries : 1..MaxRetriesBound,
     delay : {DefaultDelay, 2 * DefaultDelay}]

TimingEnvironments ==
    {[site |-> "chain", thinks |-> {0, 5, 30}, durations |-> {0, 3},
      jitters |-> {8, 10, 12}]}

InitTiming ==
    /\ config \in TimingConfigs
    /\ env \in TimingEnvironments
    /\ InitCrawler
    /\ InitNoExtraction

TimingSpec == InitTiming /\ [][Next]_vars

TypeOK ==
    /\ config \in Configs
    /\ pc \in {"start", "get", "paginate", "save", "done"}
    /\ current_page \in 0..(MaxPagesBound + 1)
    /\ attempt \in 0..(MaxRetriesBound + 1)

\* ---------------------------------------------------------------- claims
IsClientError(status) == 400 <= status /\ status < 500
IsServerError(status) == 500 <= status /\ status < 600

\* C1: with pagination configured, at most max_pages - 1 get() calls are
\* issued beyond the start page, the CrawlResult never holds more than
\* max_pages Records, and no next link is followed once
\* current_page >= max_pages.
C1_MaxPagesRespected ==
    /\ Len(get_urls) <= 1 + (config.max_pages - 1)
    /\ Len(results) <= config.max_pages
    /\ (pc = "get" /\ caller = "pagination") => current_page < config.max_pages

C1_Witness ==
    /\ config.max_pages >= 3
    /\ halt_reason = "max_pages_reached"
    /\ Len(results) = config.max_pages
    /\ Len(get_urls) = config.max_pages

\* C2: a next link that resolves to an already visited page halts the chain
\* before another request, so no URL is requested twice within one run and
\* the chain never makes more than max_pages - 1 pagination fetches.
C2_NoUrlRequestedTwice ==
    /\ \A i, j \in 1..Len(get_urls) : get_urls[i] = get_urls[j] => i = j
    /\ Len(get_urls) <= 1 + (config.max_pages - 1)

\* C3: a get() whose attempts all fail with a connection error or timeout
\* makes exactly max_retries HTTP attempts and then raises the last error.
C3_ExactlyMaxRetriesAttempts ==
    /\ get_attempts <= config.max_retries
    /\ (get_status = "raised" /\ last_status = 0) =>
            /\ get_attempts = config.max_retries
            /\ get_error = last_exception
            /\ get_error \in TransportErrors

C3_Witness ==
    /\ get_status = "raised"
    /\ get_error = "ConnectionError"
    /\ config.max_retries = 3
    /\ get_attempts = 3

\* C4: a 4xx response makes get() raise immediately: no further attempt and
\* no backoff sleep follow it, and the caller receives the HTTP client error
\* of that response.
C4_ClientErrorRaisedAsHTTPError ==
    IsClientError(last_status) =>
        /\ get_status = "raised"
        /\ get_error = "HTTPError"

\* C5: a 5xx response on an attempt that is not the last is followed by a
\* further attempt; the server HTTP error is raised only after max_retries
\* attempts have failed.
C5_ServerErrorRetried ==
    (get_status = "raised" /\ IsServerError(last_status)) =>
        /\ get_attempts = config.max_retries
        /\ get_error = "HTTPError"

\* C6: once the start page's Record has been appended, crawl() returns the
\* accumulated CrawlResult and never raises, for css and xpath selectors and
\* for every way the chain can end.
C6_BestEffortAfterStartPage ==
    crawl_outcome = "raised" => results = <<>>

\* C7: when get() raises while fetching page k+1 of the chain, the chain
\* stops (no later request), the k Records collected so far stay in the
\* CrawlResult in their order, and nothing is appended for the failed page.
C7_FetchErrorKeepsRecords ==
    [][/\ (pc = "get" /\ caller = "pagination" /\ get_status' = "raised") =>
            /\ results' = results
            /\ Len(results) = current_page
            /\ pc' \in {"save", "done"}
            /\ crawl_outcome' = "returned"
       /\ (caller = "pagination" /\ get_status = "raised") =>
            /\ results' = results
            /\ get_urls' = get_urls
            /\ total_attempts' = total_attempts]_vars

C7_Witness ==
    /\ caller = "pagination"
    /\ get_status = "raised"
    /\ get_error \in {"TypeError", "Timeout"}
    /\ Len(results) = 2
    /\ pc = "done"

\* C8: a fetch failure on the start URL is fatal: crawl() raises the error,
\* CrawlResult and VisitedSet stay empty, no pagination fetch is attempted
\* and under run() the sink is never invoked.
C8_StartFailureFatal ==
    (caller = "crawl" /\ get_status = "raised") =>
        /\ crawl_outcome = "raised"
        /\ crawl_error = get_error
        /\ run_outcome = "raised"
        /\ results = <<>>
        /\ visited_urls = {}
        /\ Len(get_urls) = 1
        /\ sink_calls = <<>>
        /\ pc = "done"

C8_Witness ==
    /\ caller = "crawl"
    /\ get_status = "raised"
    /\ config.has_pagination
    /\ crawl_outcome = "raised"
    /\ pc = "done"

\* C9: on every path through crawl() the Fetch Client's session is closed
\* before crawl() returns or propagates, and no HTTP request is issued after
\* the close.
C9_SessionClosedOnEveryPath ==
    /\ crawl_outcome # "none" => session_closed
    /\ ~request_after_close

C9_Witness ==
    /\ crawl_outcome = "raised"
    /\ crawl_error = "TypeError"
    /\ results # <<>>
    /\ session_closed

\* the disabled indicators of C10 on an element, read off the claim
C10_Indicator(element) ==
    \/ \E i \in 1..Len(element.class) :
            element.class[i] \in {"disabled", "inactive", "unavailable"}
    \/ element.aria = "true"
    \/ element.href \in {NoneVal, "", "#", "javascript:void(0)", "javascript:;"}

\* C10: with a css selector, a first matched element that carries a disabled
\* class, aria-disabled="true" or an empty/placeholder href halts pagination
\* with no further fetch.
C10_DisabledLinkHalts ==
    [][(/\ pc = "paginate"
        /\ config.next_page_type = "css"
        /\ page_extractor # <<>>
        /\ C10_Indicator(page_extractor[1])) =>
            /\ pc' = "save"
            /\ crawl_outcome' = "returned"
            /\ get_urls' = get_urls
            /\ results' = results]_vars

C10_Witness ==
    /\ halt_reason = "invalid_next_page"
    /\ config.next_page_type = "css"
    /\ config.selector_ok
    /\ current_page < config.max_pages
    /\ page_extractor # <<>>
    /\ page_extractor[1].class = <<"unavailable">>
    /\ page_extractor[1].href \in AbsURLs
    /\ crawl_outcome = "returned"

\* C11: with a css selector, a next-link element that carries a `disabled`
\* attribute, whatever its value (the valueless form included), is rejected:
\* pagination halts and the element's href is not fetched.
C11_DisabledAttributeNotFetched ==
    (pc = "get" /\ caller = "pagination" /\ config.next_page_type = "css") =>
        page_extractor[1].disabled = NoneVal

\* C12: with an xpath selector, when current_page < max_pages, the selector
\* yields a node and the extracted next URL is a non-empty string outside
\* VisitedSet, the controller fetches that URL as it does for css.
C12_XPathNextLinkFetched ==
    [][(/\ pc = "paginate"
        /\ config.next_page_type = "xpath"
        /\ config.selector_ok
        /\ current_page < config.max_pages
        /\ page_extractor # <<>>
        /\ page_extractor[1].href \in AbsURLs
        /\ page_extractor[1].href \notin visited_urls) =>
            /\ pc' = "get"
            /\ caller' = "pagination"
            /\ url' = page_extractor[1].href]_vars

\* a response body the DataExtractor could not parse was met in this run
ParseFailureSeen ==
    \/ crawl_error = "ParseError"
    \/ (halt_reason = "fetch_error" /\ get_status = "returned")

\* C13: at every point of a run the CrawlResult holds one Record per
\* successfully fetched page, in fetch order, and VisitedSet holds exactly
\* one distinct URL per Record (pages whose body does not parse set aside).
C13_OneVisitedUrlPerRecord ==
    ~ParseFailureSeen => Cardinality(visited_urls) = Len(results)

\* C14: after every successful get() the client's current origin is the
\* scheme+host of the response's final (post-redirect) URL.
C14_OriginFollowsFinalUrl ==
    get_status = "returned" => current_base_url = OriginOf(response_url)

\* resolution as C18 states it: a URL with a scheme is kept, any other URL
\* is joined to the origin of the most recently fetched page
C18_Resolved(u, page_url) ==
    IF StartsWithHttp(u) THEN u
    ELSE IF page_url = NoneVal THEN u
    ELSE urljoin(OriginOf(page_url), u)

\* C18: resolve_url returns an absolute URL unchanged, resolves any other
\* URL against the origin of the most recently fetched page, and returns the
\* URL unchanged when no page was fetched before.
C18_ResolvedAgainstFetchedPage ==
    /\ (pc = "get" /\ caller = "crawl") =>
            url = C18_Resolved(config.start_url, NoneVal)
    /\ (pc = "get" /\ caller = "pagination") =>
            url = C18_Resolved(extract_by_css(page_extractor)[1], response_url)

\* C19: run() invokes the sink only after crawl() completed without raising,
\* hands it the full CrawlResult, and propagates any error of crawl() or of
\* the sink; when crawl() raises the sink is never invoked.
C19_RunSavesAfterCrawl ==
    /\ sink_calls # <<>> =>
            /\ crawl_outcome = "returned"
            /\ sink_calls = <<results>>
    /\ crawl_outcome = "raised" =>
            /\ sink_calls = <<>>
            /\ run_outcome = "raised"
            /\ run_error = crawl_error
    /\ save_error # NoneVal =>
            /\ run_outcome = "raised"
            /\ run_error = save_error
    /\ run_outcome = "returned" =>
            /\ crawl_outcome = "returned"
            /\ sink_calls = <<results>>

C19_Witness ==
    /\ pc = "done"
    /\ crawl_outcome = "returned"
    /\ Len(results) = 2
    /\ sink_calls = <<results>>
    /\ save_error = "StorageError"
    /\ run_outcome = "raised"

\* C15: rate limiting is enforced before every HTTP attempt, retries
\* included: each attempt of a get() is preceded by its own enforcement of
\* the jittered minimum interval.
C15_DelayBeforeEveryAttempt ==
    get_attempts <= delay_calls

\* C16: after the failed attempt number k (zero-indexed), k < max_retries - 1,
\* the client sleeps backoff_factor * 2^k before attempt k+1; it does not
\* sleep after the final failed attempt; with max_retries = 3 the backoff
\* sleeps before the final failure add up to backoff_factor * (2^0 + 2^1).
C16_BackoffAfterFailedAttempt ==
    (get_attempts >= 1 /\ last_status # 200 /\ ~IsClientError(last_status)) =>
        LET k == get_attempts - 1 IN
        /\ k < config.max_retries - 1 =>
                /\ Len(backoff_sleeps) = k + 1
                /\ backoff_sleeps[k + 1] = BackoffFactor * 2^k
        /\ k >= config.max_retries - 1 => Len(backoff_sleeps) = k
        /\ (get_status = "raised" /\ config.max_retries = 3) =>
                backoff_sleeps = <<BackoffFactor * 2^0, BackoffFactor * 2^1>>

\* C17: the first request of a get() does not start earlier than 0.8 * delay
\* after the end of the previous request; the client sleeps only for the part
\* of the jittered interval (0.8 to 1.2 times delay) that has not elapsed,
\* not at all when it has elapsed, and never before the very first request.
C17_MinimumInterval ==
    Len(get_urls) >= 1 =>
        /\ 10 * actual_delay >= 8 * config.delay
        /\ 10 * actual_delay <= 12 * config.delay
        /\ delay_sleep >= 0
        /\ Len(get_urls) = 1 => delay_sleep = 0
        /\ Len(get_urls) >= 2 =>
            /\ 10 * ((call_time + delay_sleep) - prev_end) >= 8 * config.delay
            /\ get_attempts >= 1 =>
                    10 * (request_start - prev_end) >= 8 * config.delay
            /\ delay_sleep > 0 =>
                    call_time + delay_sleep = prev_end + actual_delay
            /\ call_time - prev_end >= actual_delay => delay_sleep = 0

C17_Witness ==
    /\ Len(get_urls) = 2
    /\ get_attempts >= 1
    /\ config.delay = DefaultDelay
    /\ delay_sleep > 0
    /\ delay_sleep < actual_delay
    /\ request_start = prev_end + actual_delay

\* the rules C20 calls failing: the selector is rejected, or the type is
\* not one the engine evaluates
C20_Fails(rule) == rule.selector = "bad" \/ rule.type \notin {"css", "xpath"}

\* C20: in extract_all a rule whose evaluation fails resolves to null
\* (multiple=false) or the empty sequence (multiple=true), every other rule
\* gets the value it would have had alone, and the Record has a key for
\* every rule's field.
C20_PerFieldIsolation ==
    /\ ex_status # "raised"
    /\ ex_status = "returned" =>
        /\ DOMAIN ex_data = {ex_rules[i].field : i \in 1..Len(ex_rules)}
        /\ \A i \in 1..Len(ex_rules) :
            LET rule == ex_rules[i] IN
            IF C20_Fails(rule)
            THEN ex_data[rule.field] =
                    IF rule.multiple THEN ListValue(<<>>) ELSE NullValue
            ELSE ex_data[rule.field] = RuleValue(ex_doc, rule)

C20_Witness ==
    /\ ex_status = "returned"
    /\ Len(ex_rules) = 2
    /\ ex_rules[1].selector = "bad"
    /\ ex_rules[1].type = "css"
    /\ ex_rules[2].selector = "title"
    /\ ex_rules[2].type = "css"
    /\ ex_data["f1"] = NullValue
    /\ ex_data["f2"] = ScalarValue("Page 1")

\* C21: a WebCrawler built from a configuration with a rule whose type is
\* neither css nor xpath fails with a configuration error; it does not run
\* and yield a null/empty value for that field.
C21_UnknownTypeIsConfigError ==
    (\E i \in 1..Len(ex_rules) : ex_rules[i].type \notin {"css", "xpath"}) =>
        ex_status = "config_error"

\* what one matched element contributes to a field: the named attribute
\* (css with attribute) or the trimmed text
C22_MatchValue(element, rule) ==
    IF rule.type = "css" /\ rule.attr # NoneVal
    THEN IF element.href = NoneVal THEN "" ELSE element.href
    ELSE Strip(element.text)

\* C22: a rule with multiple=false whose selector has zero matches gives
\* null, never an error and never the empty string; with matches it gives
\* the value of the first match in document order.
C22_SingleValueOrNull ==
    /\ ex_status # "raised"
    /\ ex_status = "returned" =>
        \A i \in 1..Len(ex_rules) :
            LET rule == ex_rules[i]
                matched == Select(ex_doc, rule.selector)
            IN  (~rule.multiple /\ ~C20_Fails(rule)) =>
                    IF Len(matched) = 0
                    THEN ex_data[rule.field] = NullValue
                    ELSE ex_data[rule.field] =
                            ScalarValue(C22_MatchValue(matched[1], rule))

C22_Witness ==
    /\ ex_status = "returned"
    /\ ex_doc = "page1"
    /\ Len(ex_rules) = 2
    /\ ex_rules[1] = [field |-> "f1", type |-> "css", selector |-> "none",
                      attr |-> NoneVal, multiple |-> FALSE]
    /\ ex_rules[2] = [field |-> "f2", type |-> "css", selector |-> "links",
                      attr |-> "href", multiple |-> FALSE]
    /\ ex_data["f1"] = NullValue
    /\ ex_data["f2"] = ScalarValue("/b")

\* C23: a rule with multiple=true gives the sequence of all matches in
\* document match order, as long as the number of matches, and the empty
\* sequence when nothing matches.
C23_AllMatchesInOrder ==
    ex_status = "returned" =>
        \A i \in 1..Len(ex_rules) :
            LET rule == ex_rules[i]
                matched == Select(ex_doc, rule.selector)
            IN  (rule.multiple /\ ~C20_Fails(rule)) =>
                    ex_data[rule.field] =
                        ListValue([k \in 1..Len(matched) |->
                                      C22_MatchValue(matched[k], rule)])

C23_Witness ==
    /\ ex_status = "returned"
    /\ ex_doc = "page1"
    /\ Len(ex_rules) = 2
    /\ ex_rules[1] = [field |-> "f1", type |-> "xpath", selector |-> "links",
                      attr |-> NoneVal, multiple |-> TRUE]
    /\ ex_rules[2] = [field |-> "f2", type |-> "css", selector |-> "none",
                      attr |-> NoneVal, multiple |-> TRUE]
    /\ ex_data["f1"] = ListValue(<<"next", "last", "top">>)
    /\ ex_data["f2"] = ListValue(<<>>)

\* C24: a get() that ends in an error leaves the client's current origin
\* exactly as it was before the call.
C24_FailedGetKeepsOrigin ==
    get_status = "raised" => current_base_url = base_at_call

\* C25: when the crawl fails because get() raised a connection error or a
\* timeout after its retries, run_crawler returns EXIT_NETWORK_ERROR, not the
\* generic EXIT_RUNTIME_ERROR.
C25_NetworkErrorExitCode ==
    (run_outcome = "raised" /\ crawl_outcome = "raised"
        /\ crawl_error \in {"ConnectionError", "Timeout"}) =>
            exit_code = EXIT_NETWORK_ERROR

\* C26: crawl() always terminates, and one run performs at most
\* max_pages * max_retries HTTP attempts, whatever the site's links do.
C26_CrawlTerminates ==
    /\ <>(crawl_outcome # "none")
    /\ [](total_attempts <= config.max_pages * config.max_retries)

C26_Witness ==
    /\ crawl_outcome = "returned"
    /\ config.max_pages = MaxPagesBound
    /\ config.max_retries = MaxRetriesBound
    /\ total_attempts = config.max_pages * config.max_retries
    /\ Len(results) = config.max_pages
    /\ \E i \in 1..Len(get_urls), j \in 1..Len(get_urls) :
          i < j /\ get_urls[i] = get_urls[j]

====
